---- MODULE Spec2Model ----
(***************************************************************************)
(* Hoboken Departures (src/app.py): a Streamlit script that, on every run, *)
(* reads the window slider, runs three fetch / normalize / render          *)
(* pipelines (PATH JSON feed, two NJT MyBus HTML pages), sleeps and        *)
(* reruns.                                                                 *)
(*                                                                         *)
(* Text is modelled as a sequence of one-character strings, so that the    *)
(* regular expressions, int(), str(), strip() and the ISO parser are       *)
(* computed character by character.  A timestamp keeps the minute and     *)
(* second fields and the UTC offset of an ISO-8601 string ("MM:SS",        *)
(* "MM:SSZ", "MM:SS+HH:MM"); the date and the hour are the same for every   *)
(* timestamp and for the clock and are left out of the text.               *)
(***************************************************************************)
EXTENDS Integers, Sequences, FiniteSets, TLC

VARIABLES
    pc,              \* position of the script run: "sidebar", "path", "bus11", "bus10", "sleep"
    MAX_WINDOW_MIN,  \* the module global of line 209
    SESSION,         \* the cookie jar of the requests.Session of line 50
    panels,          \* what each of the three columns shows in this run
    wire,            \* per column, the HTTP exchanges of its pipeline in this run
    cycles,          \* number of reruns so far
    feed,            \* parse_path_realtime: the JSON document served
    now,             \* parse_path_realtime: datetime.now(timezone.utc), in seconds
    rows,            \* parse_path_realtime: local `rows` after the loops (line 118)
    path_result,     \* parse_path_realtime: what the call did
    html,            \* parse_njt_mybus: the text nodes of the page served
    out,             \* parse_njt_mybus: local `out` after the loop (line 164)
    bus_result       \* parse_njt_mybus: what the call did

vars == <<pc, MAX_WINDOW_MIN, SESSION, panels, wire, cycles,
          feed, now, rows, path_result, html, out, bus_result>>

-----------------------------------------------------------------------------
(* Bounds of the model.                                                    *)

MaxMsgs == 2
MaxNodes == 2
MaxCycles == 1

-----------------------------------------------------------------------------
(* Characters.                                                             *)

Digits == <<"0", "1", "2", "3", "4", "5", "6", "7", "8", "9">>

Lowers == <<"a", "b", "c", "d", "e", "f", "g", "h", "i", "j", "k", "l", "m",
            "n", "o", "p", "q", "r", "s", "t", "u", "v", "w", "x", "y", "z">>

Uppers == <<"A", "B", "C", "D", "E", "F", "G", "H", "I", "J", "K", "L", "M",
            "N", "O", "P", "Q", "R", "S", "T", "U", "V", "W", "X", "Y", "Z">>

Range(s) == {s[i] : i \in DOMAIN s}

IsDigit(c) == c \in Range(Digits)

DigitVal(c) == (CHOOSE i \in DOMAIN Digits : Digits[i] = c) - 1

\* \s of the re module, over the characters the model uses
IsSpace(c) == c \in {" ", "\t", "\n"}

\* str.upper(), one character
UpperChar(c) ==
    IF c \in Range(Lowers)
    THEN Uppers[CHOOSE i \in DOMAIN Lowers : Lowers[i] = c]
    ELSE c

UpperStr(s) == [i \in DOMAIN s |-> UpperChar(s[i])]

\* the literal `lit` stands at position i of s, compared as re.IGNORECASE does
LitAtCI(s, i, lit) ==
    /\ i >= 1
    /\ i + Len(lit) - 1 <= Len(s)
    /\ \A k \in 1..Len(lit) : UpperChar(s[i + k - 1]) = UpperChar(lit[k])

\* first position >= i of s that does not satisfy the class (Len(s)+1 when none):
\* the end of a greedy \d+ or \s* that starts at i
RECURSIVE DigitsEnd(_, _)
DigitsEnd(s, i) ==
    IF i <= Len(s) /\ IsDigit(s[i]) THEN DigitsEnd(s, i + 1) ELSE i

RECURSIVE SpacesEnd(_, _)
SpacesEnd(s, i) ==
    IF i <= Len(s) /\ IsSpace(s[i]) THEN SpacesEnd(s, i + 1) ELSE i

Slice(s, a, b) == IF a > b THEN <<>> ELSE SubSeq(s, a, b)

\* int() of a digit string
RECURSIVE ToInt(_)
ToInt(s) ==
    IF s = <<>> THEN 0
    ELSE 10 * ToInt(SubSeq(s, 1, Len(s) - 1)) + DigitVal(s[Len(s)])

\* str() of a non-negative int
RECURSIVE IntToStr(_)
IntToStr(n) ==
    IF n < 10 THEN <<Digits[n + 1]>>
    ELSE IntToStr(n \div 10) \o <<Digits[(n % 10) + 1]>>

\* str.strip()
RECURSIVE LStrip(_)
LStrip(s) == IF s # <<>> /\ IsSpace(s[1]) THEN LStrip(Tail(s)) ELSE s

RECURSIVE RStrip(_)
RStrip(s) ==
    IF s # <<>> /\ IsSpace(s[Len(s)]) THEN RStrip(SubSeq(s, 1, Len(s) - 1)) ELSE s

Strip(s) == RStrip(LStrip(s))

-----------------------------------------------------------------------------
(* JSON values, as r.json() returns them, and the Python operations the    *)
(* normalizer applies to them.  An object is a function from its keys to   *)
(* values; a key that is absent is not in its domain.                      *)

JNull == [t |-> "null"]
JStr(s) == [t |-> "str", s |-> s]
JNum(n) == [t |-> "num", n |-> n]
JList(l) == [t |-> "list", l |-> l]
JObj(o) == [t |-> "obj", o |-> o]

\* only a dict has .get; on anything else the call raises AttributeError
HasGet(v) == v.t = "obj"

\* dict.get(k, d)
Get(v, k, d) == IF k \in DOMAIN v.o THEN v.o[k] ELSE d

\* `for x in v`: None and numbers raise TypeError; a str yields its characters
\* (objects are not drawn where the code iterates)
Iterable(v) == v.t \in {"list", "str"}

Items(v) ==
    CASE v.t = "list" -> v.l
      [] v.t = "str" -> [i \in DOMAIN v.s |-> JStr(<<v.s[i]>>)]

\* truth value, as `or` and `if` take it
Truthy(v) ==
    CASE v.t = "null" -> FALSE
      [] v.t = "str" -> v.s # <<>>
      [] v.t = "num" -> v.n # 0
      [] v.t = "list" -> v.l # <<>>
      [] v.t = "obj" -> DOMAIN v.o # {}

\* a or b
PyOr(a, b) == IF Truthy(a) THEN a ELSE b

\* str(v)
PyStr(v) ==
    CASE v.t = "str" -> v.s
      [] v.t = "num" -> IntToStr(v.n)
      [] v.t = "null" -> <<"N", "o", "n", "e">>

-----------------------------------------------------------------------------
(* parse_path_realtime, lines 77-123.                                      *)

HOB == <<"H", "O", "B">>
PATH == <<"P", "A", "T", "H">>

\* Optional minutes: <<>> is None, <<n>> is the int n
None == <<>>
Some(n) == <<n>>

Max(a, b) == IF a >= b THEN a ELSE b

\* arrival_iso.replace("Z", "+00:00"), line 101
RECURSIVE ReplaceZ(_)
ReplaceZ(s) ==
    IF s = <<>> THEN <<>>
    ELSE (IF s[1] = "Z" THEN <<"+", "0", "0", ":", "0", "0">> ELSE <<s[1]>>)
         \o ReplaceZ(Tail(s))

TwoDigits(s, i) == IsDigit(s[i]) /\ IsDigit(s[i + 1])
TwoDigitVal(s, i) == 10 * DigitVal(s[i]) + DigitVal(s[i + 1])

\* "MM:SS" at position i of s, with both fields below 60
ClockAt(s, i) ==
    /\ i + 4 <= Len(s)
    /\ TwoDigits(s, i) /\ s[i + 2] = ":" /\ TwoDigits(s, i + 3)
    /\ TwoDigitVal(s, i) < 60 /\ TwoDigitVal(s, i + 3) < 60

\* "+HH:MM" or "-HH:MM" at position i of s, in seconds east of UTC
OffsetAt(s, i) ==
    /\ i + 5 <= Len(s)
    /\ s[i] \in {"+", "-"}
    /\ TwoDigits(s, i + 1) /\ s[i + 3] = ":" /\ TwoDigits(s, i + 4)
    /\ TwoDigitVal(s, i + 1) < 24 /\ TwoDigitVal(s, i + 4) < 60

OffsetSeconds(s, i) ==
    (IF s[i] = "-" THEN -1 ELSE 1)
    * (3600 * TwoDigitVal(s, i + 1) + 60 * TwoDigitVal(s, i + 4))

\* datetime.fromisoformat(ts), line 102: ok is FALSE where it raises ValueError;
\* aware tells whether the result carries a UTC offset; utc is the instant
FromIsoFormat(ts) ==
    IF Len(ts) = 5 /\ ClockAt(ts, 1)
    THEN [ok |-> TRUE, aware |-> FALSE,
          utc |-> 60 * TwoDigitVal(ts, 1) + TwoDigitVal(ts, 4)]
    ELSE IF Len(ts) = 11 /\ ClockAt(ts, 1) /\ OffsetAt(ts, 6)
    THEN [ok |-> TRUE, aware |-> TRUE,
          utc |-> 60 * TwoDigitVal(ts, 1) + TwoDigitVal(ts, 4)
                  - OffsetSeconds(ts, 6)]
    ELSE [ok |-> FALSE, aware |-> FALSE, utc |-> 0]

\* lines 97-106: minutes from arrivalTime.  Every exception of the try block
\* (no .replace on a non-str, ValueError of fromisoformat, TypeError of a naive
\* datetime minus the aware `now`) leaves minutes None.
MinutesFromArrivalTime(arrival_iso, t) ==
    IF ~Truthy(arrival_iso) THEN None
    ELSE IF arrival_iso.t # "str" THEN None
    ELSE LET arrival == FromIsoFormat(ReplaceZ(arrival_iso.s))
         IN  IF ~arrival.ok \/ ~arrival.aware THEN None
             ELSE Some(Max(0, (arrival.utc - t) \div 60))

\* re.search(r"(\d+)\s*min", s, re.I): the set of start positions that match
MinMatchStarts(s) ==
    {i \in DOMAIN s :
        /\ IsDigit(s[i])
        /\ LitAtCI(s, SpacesEnd(s, DigitsEnd(s, i)), <<"m", "i", "n">>)}

\* lines 109-112: minutes from arrivalTimeMessage
MinutesFromMessage(msg) ==
    LET s == PyStr(Get(msg, "arrivalTimeMessage", JStr(<<>>)))
        starts == MinMatchStarts(s)
    IN  IF starts = {} THEN None
        ELSE LET i == CHOOSE i \in starts : \A j \in starts : i <= j
             IN  Some(ToInt(Slice(s, i, DigitsEnd(s, i) - 1)))

\* ResolveMinutes with the two sources tried in the other order
ResolveMinutesPhraseFirst(msg, t) ==
    LET fromPhrase == MinutesFromMessage(msg)
    IN  IF fromPhrase # None THEN fromPhrase
        ELSE MinutesFromArrivalTime(Get(msg, "arrivalTime", JNull), t)

\* lines 93-112: the minutes of one message
ResolveMinutes(msg, t) ==
    LET fromTime == MinutesFromArrivalTime(Get(msg, "arrivalTime", JNull), t)
    IN  IF fromTime # None THEN fromTime ELSE MinutesFromMessage(msg)

\* line 94
Headsign(dest, msg) ==
    PyOr(PyOr(Get(msg, "headSign", JNull), Get(dest, "label", JNull)), JStr(PATH))

\* line 95
LineOf(msg) ==
    PyOr(PyOr(Get(msg, "lineName", JNull), Get(msg, "line", JNull)), JStr(PATH))

\* InWindow without the upper bound: the filter `0 <= minutes`
InWindowNoUpperBound(minutes, window) == 0 <= minutes

\* lines 117, 163
InWindow(minutes, window) == 0 <= minutes /\ minutes <= window

\* lines 91-118: one message.  acc is [raised, rows].
PathMessage(acc, dest, msg, t, window) ==
    IF acc.raised THEN acc
    ELSE IF ~HasGet(msg) THEN [acc EXCEPT !.raised = TRUE]
    ELSE LET minutes == ResolveMinutes(msg, t)
         IN  IF minutes = None THEN acc
             ELSE IF InWindow(minutes[1], window)
             THEN [acc EXCEPT !.rows = Append(@,
                      [line |-> PyStr(LineOf(msg)),
                       to |-> PyStr(Headsign(dest, msg)),
                       minutes |-> minutes[1],
                       raw |-> msg])]
             ELSE acc

RECURSIVE PathMessages(_, _, _, _, _, _)
PathMessages(acc, dest, msgs, i, t, window) ==
    IF i > Len(msgs) THEN acc
    ELSE PathMessages(PathMessage(acc, dest, msgs[i], t, window),
                      dest, msgs, i + 1, t, window)

\* lines 90-91: one destination
PathDestination(acc, dest, t, window) ==
    IF acc.raised THEN acc
    ELSE IF ~HasGet(dest) THEN [acc EXCEPT !.raised = TRUE]
    ELSE LET msgs == Get(dest, "messages", JList(<<>>))
         IN  IF ~Iterable(msgs) THEN [acc EXCEPT !.raised = TRUE]
             ELSE PathMessages(acc, dest, Items(msgs), 1, t, window)

RECURSIVE PathDestinations(_, _, _, _, _)
PathDestinations(acc, dests, i, t, window) ==
    IF i > Len(dests) THEN acc
    ELSE PathDestinations(PathDestination(acc, dests[i], t, window),
                          dests, i + 1, t, window)

\* lines 86-90: one station
PathStation(acc, station, t, window) ==
    IF acc.raised THEN acc
    ELSE IF ~HasGet(station) THEN [acc EXCEPT !.raised = TRUE]
    ELSE IF Get(station, "consideredStation", JNull) # JStr(HOB) THEN acc
    ELSE LET dests == Get(station, "destinations", JList(<<>>))
         IN  IF ~Iterable(dests) THEN [acc EXCEPT !.raised = TRUE]
             ELSE PathDestinations(acc, Items(dests), 1, t, window)

RECURSIVE PathStations(_, _, _, _, _)
PathStations(acc, stations, i, t, window) ==
    IF i > Len(stations) THEN acc
    ELSE PathStations(PathStation(acc, stations[i], t, window),
                      stations, i + 1, t, window)

\* lines 82-118: the loops; the result is [raised, rows]
PathCollect(data, t, window) ==
    LET acc == [raised |-> FALSE, rows |-> <<>>]
    IN  IF ~HasGet(data) THEN [acc EXCEPT !.raised = TRUE]
        ELSE LET stations == Get(data, "results", JList(<<>>))
             IN  IF ~Iterable(stations) THEN [acc EXCEPT !.raised = TRUE]
                 ELSE PathStations(acc, Items(stations), 1, t, window)

PathKey(r) == <<r.line, r.to, r.minutes>>

\* line 121: {key(r): r for r in rows}.values() -- a dict keeps the position of
\* the first insertion of a key and the value of the last
RECURSIVE PathUniqFrom(_, _)
PathUniqFrom(rs, i) ==
    IF i > Len(rs) THEN <<>>
    ELSE IF \E j \in 1..(i - 1) : PathKey(rs[j]) = PathKey(rs[i])
    THEN PathUniqFrom(rs, i + 1)
    ELSE LET last == CHOOSE j \in i..Len(rs) :
                        /\ PathKey(rs[j]) = PathKey(rs[i])
                        /\ \A k \in (j + 1)..Len(rs) : PathKey(rs[k]) # PathKey(rs[i])
         IN  <<rs[last]>> \o PathUniqFrom(rs, i + 1)

\* PathUniq keeping the first occurrence of a key instead of the last
RECURSIVE PathUniqFirstWins(_)
PathUniqFirstWins(rs) ==
    IF rs = <<>> THEN <<>>
    ELSE LET front == PathUniqFirstWins(SubSeq(rs, 1, Len(rs) - 1))
         IN  IF \E j \in DOMAIN front : PathKey(front[j]) = PathKey(rs[Len(rs)])
             THEN front ELSE Append(front, rs[Len(rs)])

PathUniq(rs) == PathUniqFrom(rs, 1)

\* sorted(..., key=minutes) and list.sort(key=minutes): stable
RECURSIVE InsertByMinutes(_, _)
InsertByMinutes(sorted, r) ==
    IF sorted = <<>> THEN <<r>>
    ELSE IF sorted[Len(sorted)].minutes <= r.minutes THEN Append(sorted, r)
    ELSE Append(InsertByMinutes(SubSeq(sorted, 1, Len(sorted) - 1), r),
                sorted[Len(sorted)])

RECURSIVE SortFrom(_, _, _)
SortFrom(rs, i, acc) ==
    IF i > Len(rs) THEN acc ELSE SortFrom(rs, i + 1, InsertByMinutes(acc, rs[i]))

\* SortedByMinutes without the sort
Unsorted(rs) == rs

SortedByMinutes(rs) == SortFrom(rs, 1, <<>>)

\* lines 120-123
PathFinish(rs) == SortedByMinutes(PathUniq(rs))

-----------------------------------------------------------------------------
(* parse_njt_mybus, lines 125-172.  A page is the sequence of its text     *)
(* nodes, in document order.                                               *)

\* soup.get_text("\n", strip=True), line 137: every text node stripped, the
\* empty ones dropped, the rest joined by a newline
RECURSIVE GetText(_)
GetText(nodes) ==
    IF nodes = <<>> THEN <<>>
    ELSE LET head == Strip(nodes[1])
             rest == GetText(Tail(nodes))
         IN  IF head = <<>> THEN rest
             ELSE IF rest = <<>> THEN head
             ELSE head \o <<"\n">> \o rest

\* (?P<eta>(?:<\s*1|DUE|\d+)) at position e: the position after the token, or 0
\* when no alternative matches there
EtaEnd(s, e) ==
    IF e > Len(s) THEN 0
    ELSE IF s[e] = "<"
    THEN LET q == SpacesEnd(s, e + 1)
         IN  IF q <= Len(s) /\ s[q] = "1" THEN q + 1 ELSE 0
    ELSE IF LitAtCI(s, e, <<"D", "U", "E">>) THEN e + 3
    ELSE IF IsDigit(s[e]) THEN DigitsEnd(s, e)
    ELSE 0

\* (?P<to>.+?)\s+(?P<eta>...) with the destination starting at x: the last
\* positions y of a destination s[x..y] (no newline in it) that is followed by
\* white space and an ETA token
ToEnds(s, x) ==
    {y \in x..(Len(s) - 1) :
        /\ \A k \in x..y : s[k] # "\n"
        /\ IsSpace(s[y + 1])
        /\ EtaEnd(s, SpacesEnd(s, y + 1)) > 0}

\* \s*(?:MIN)? after the ETA token that ends before position q: the end of the match
MatchEnd(s, q) ==
    LET w == SpacesEnd(s, q)
    IN  IF LitAtCI(s, w, <<"M", "I", "N">>) THEN w + 3 ELSE w

\* the pattern of lines 144-147 anchored at position p: <<>> or <<match>>.
\* The \s+ after "To" is greedy, so the destination starts as late as a match
\* allows; .+? is lazy, so it ends as early as a match allows.
MatchAt(s, p) ==
    IF ~(p <= Len(s) /\ s[p] = "#") THEN <<>>
    ELSE LET r == DigitsEnd(s, p + 1)
             w == SpacesEnd(s, r)
             a == w + 2
             b == SpacesEnd(s, a)
             starts == {x \in (a + 1)..b : ToEnds(s, x) # {}}
         IN  IF r = p + 1 \/ w = r \/ ~LitAtCI(s, w, <<"T", "o">>) \/ starts = {}
             THEN <<>>
             ELSE LET x == CHOOSE x \in starts : \A z \in starts : z <= x
                      y == CHOOSE y \in ToEnds(s, x) : \A z \in ToEnds(s, x) : y <= z
                      e == SpacesEnd(s, y + 1)
                  IN  <<[route |-> Slice(s, p + 1, r - 1),
                         to |-> Slice(s, x, y),
                         eta |-> Slice(s, e, EtaEnd(s, e) - 1),
                         start |-> p,
                         end |-> MatchEnd(s, EtaEnd(s, e))]>>

\* pattern.finditer(text), line 150: the non-overlapping matches, left to right
RECURSIVE FindIter(_, _)
FindIter(s, p) ==
    IF p > Len(s) THEN <<>>
    ELSE LET m == MatchAt(s, p)
         IN  IF m = <<>> THEN FindIter(s, p + 1)
             ELSE m \o FindIter(s, m[1].end)

\* EtaMinutes with "<1" read as one minute
EtaMinutesLessThanIsOne(eta) ==
    LET eta_raw == UpperStr(Strip(eta))
    IN  IF eta_raw = <<"D", "U", "E">> THEN Some(0)
        ELSE IF eta_raw # <<>> /\ eta_raw[1] = "<" THEN Some(1)
        ELSE IF eta_raw # <<>> /\ \A i \in DOMAIN eta_raw : IsDigit(eta_raw[i])
        THEN Some(ToInt(eta_raw))
        ELSE None

\* lines 153-161: minutes of an ETA token; None where int() raises ValueError
EtaMinutes(eta) ==
    LET eta_raw == UpperStr(Strip(eta))
    IN  IF eta_raw = <<"D", "U", "E">> \/ (eta_raw # <<>> /\ eta_raw[1] = "<")
        THEN Some(0)
        ELSE IF eta_raw # <<>> /\ \A i \in DOMAIN eta_raw : IsDigit(eta_raw[i])
        THEN Some(ToInt(eta_raw))
        ELSE None

\* lines 150-164: one match
BusMatch(acc, m, window) ==
    LET minutes == EtaMinutes(m.eta)
    IN  IF minutes = None THEN acc
        ELSE IF InWindow(minutes[1], window)
        THEN Append(acc, [route |-> Strip(m.route), to |-> Strip(m.to),
                          minutes |-> minutes[1]])
        ELSE acc

RECURSIVE BusMatches(_, _, _, _)
BusMatches(acc, ms, i, window) ==
    IF i > Len(ms) THEN acc
    ELSE BusMatches(BusMatch(acc, ms[i], window), ms, i + 1, window)

\* lines 133-164: the rows appended to `out`, in page order
BusCollect(nodes, window) ==
    BusMatches(<<>>, FindIter(GetText(nodes), 1), 1, window)

BusKey(r) == <<r.route, r.to, r.minutes>>

\* lines 167-170: uniq[key] = r in a loop, then list(uniq.values())
RECURSIVE BusUniqFrom(_, _)
BusUniqFrom(rs, i) ==
    IF i > Len(rs) THEN <<>>
    ELSE IF \E j \in 1..(i - 1) : BusKey(rs[j]) = BusKey(rs[i])
    THEN BusUniqFrom(rs, i + 1)
    ELSE LET last == CHOOSE j \in i..Len(rs) :
                        /\ BusKey(rs[j]) = BusKey(rs[i])
                        /\ \A k \in (j + 1)..Len(rs) : BusKey(rs[k]) # BusKey(rs[i])
         IN  <<rs[last]>> \o BusUniqFrom(rs, i + 1)

BusUniq(rs) == BusUniqFrom(rs, 1)

\* lines 166-172
BusFinish(rs) == SortedByMinutes(BusUniq(rs))

-----------------------------------------------------------------------------
(* The feed documents parse_path_realtime is applied to.                   *)

\* arrivalTime 15:30Z, nothing else
MsgIn5 ==
    JObj([arrivalTime |-> JStr(<<"1", "5", ":", "3", "0", "Z">>)])

\* arrivalTime in the past, phrase 7 min
MsgPast ==
    JObj([arrivalTime |-> JStr(<<"0", "8", ":", "3", "0", "+", "0", "0", ":", "0", "0">>),
          arrivalTimeMessage |-> JStr(<<"7", " ", "m", "i", "n">>),
          headSign |-> JStr(<<"W", "T", "C">>),
          lineName |-> JStr(<<"R", "E", "D">>)])

\* unparseable arrivalTime, phrase 7 min
MsgJunkTime ==
    JObj([arrivalTime |-> JStr(<<"s", "o", "o", "n">>),
          arrivalTimeMessage |-> JStr(<<"7", " ", "m", "i", "n">>),
          headSign |-> JStr(<<"W", "T", "C">>),
          lineName |-> JStr(<<"R", "E", "D">>)])

\* arrivalTime without offset, phrase 12 MIN
MsgNaive ==
    JObj([arrivalTime |-> JStr(<<"1", "5", ":", "3", "0">>),
          arrivalTimeMessage |-> JStr(<<"1", "2", " ", "M", "I", "N">>),
          headSign |-> JStr(<<"W", "T", "C">>),
          line |-> JStr(<<"R", "E", "D">>)])

\* arrivalTime a number, phrase without minutes
MsgNumTime ==
    JObj([arrivalTime |-> JNum(5), arrivalTimeMessage |-> JStr(<<"d", "u", "e">>)])

\* arrivalTime null, phrase 45 min
MsgNullTime ==
    JObj([arrivalTime |-> JNull, arrivalTimeMessage |-> JStr(<<"4", "5", " ", "m", "i", "n">>)])

\* arrivalTime 55:30Z, phrase 3 min
MsgIn45 ==
    JObj([arrivalTime |-> JStr(<<"5", "5", ":", "3", "0", "Z">>),
          arrivalTimeMessage |-> JStr(<<"3", " ", "m", "i", "n">>)])

\* arrivalTime five hours later
MsgFar ==
    JObj([arrivalTime |-> JStr(<<"1", "5", ":", "3", "0", "-", "0", "5", ":", "0", "0">>)])

\* empty arrivalTime, phrase 7min: the key of MsgJunkTime
MsgEmptyTime ==
    JObj([arrivalTime |-> JStr(<<>>),
          arrivalTimeMessage |-> JStr(<<"7", "m", "i", "n">>),
          headSign |-> JStr(<<"W", "T", "C">>),
          lineName |-> JStr(<<"R", "E", "D">>)])

\* phrase a number
MsgNumPhrase ==
    JObj([arrivalTimeMessage |-> JNum(7)])

\* two integers before min
MsgTwoPhrases ==
    JObj([arrivalTimeMessage |-> JStr(<<"i", "n", " ", "3", " ", "m", "i", "n", "s", " ", "9", " ", "m", "i", "n">>),
          headSign |-> JNull, lineName |-> JStr(<<>>)])

\* phrase beyond every window
MsgBeyond ==
    JObj([arrivalTimeMessage |-> JStr(<<"2", "4", "1", " ", "m", "i", "n">>)])

\* a message record that is null instead of an object
MsgNull == JNull

Msgs ==
    {MsgIn5,
     MsgPast,
     MsgJunkTime,
     MsgNaive,
     MsgNumTime,
     MsgNullTime,
     MsgIn45,
     MsgFar,
     MsgEmptyTime,
     MsgNumPhrase,
     MsgTwoPhrases,
     MsgBeyond,
     MsgNull}

\* the message of the station that is not Hoboken
MsgElsewhere ==
    JObj([arrivalTimeMessage |-> JStr(<<"2", " ", "m", "i", "n">>), headSign |-> JStr(<<"N", "W", "K">>)])

SeqsUpTo(S, n) == UNION {[1..k -> S] : k \in 0..n}

StationElsewhere ==
    JObj([consideredStation |-> JStr(<<"N", "W", "K">>),
          destinations |-> JList(<<JObj([label |-> JStr(<<"H", "o", "b", "o", "k", "e", "n">>),
                                         messages |-> JList(<<MsgElsewhere>>)])>>)])

\* a destination with a label, and one without
DestLabelled(ms) == JObj([label |-> JStr(<<"3", "3", "r", "d", " ", "S", "t", "r", "e", "e", "t">>), messages |-> ms])
DestBare(ms) == JObj([messages |-> ms])

HobStation(dests) == JObj([consideredStation |-> JStr(HOB), destinations |-> dests])

Document(stations) == JObj([results |-> JList(stations)])

\* the messages ms, the first k under the labelled destination and the rest
\* under the other one, after a station that is not Hoboken
SplitFeed(ms, k) ==
    Document(<<StationElsewhere,
               HobStation(JList(<<DestLabelled(JList(Slice(ms, 1, k))),
                                  DestBare(JList(Slice(ms, k + 1, Len(ms))))>>))>>)

SplitFeeds == {SplitFeed(ms, k) : <<ms, k>> \in
                  {mk \in SeqsUpTo(Msgs, MaxMsgs) \X (0..MaxMsgs) : mk[2] <= Len(mk[1])}}

\* documents in which a record under the Hoboken station has a field of the
\* wrong type next to a well-formed message, or lacks a field
OddHobFeeds ==
    {Document(<<HobStation(JList(<<DestLabelled(JList(<<MsgJunkTime>>)), DestBare(JNull)>>))>>),
     Document(<<HobStation(JList(<<DestLabelled(JList(<<MsgJunkTime>>)), DestBare(JStr(<<"x">>))>>))>>),
     Document(<<HobStation(JList(<<DestLabelled(JList(<<MsgJunkTime>>)), DestBare(JNum(0))>>))>>),
     Document(<<HobStation(JList(<<DestLabelled(JList(<<MsgJunkTime>>)), JNull>>))>>),
     Document(<<HobStation(JList(<<DestLabelled(JList(<<MsgJunkTime>>)),
                                   JObj([label |-> JStr(<<"W", "T", "C">>)])>>))>>),
     Document(<<HobStation(JNull)>>),
     Document(<<HobStation(JStr(<<>>))>>),
     Document(<<JObj([consideredStation |-> JStr(HOB)])>>)}

\* documents whose envelope is not the documented one
OddEnvelopeFeeds ==
    {JNull,
     JList(<<>>),
     JObj([results |-> JNull]),
     JObj([status |-> JStr(<<"o", "k">>)]),
     Document(<<JNull>>),
     Document(<<JObj([consideredStation |-> JNull,
                      destinations |-> JList(<<DestBare(JList(<<MsgJunkTime>>))>>)])>>)}

Feeds == SplitFeeds \cup OddHobFeeds \cup OddEnvelopeFeeds

\* datetime.now(timezone.utc), line 84: 10:00 and 10:45 past the hour, in seconds
Nows == {600, 645}

-----------------------------------------------------------------------------
(* The pages parse_njt_mybus is applied to.                                *)

TextNodes ==
    {<<"#", "1", "2", "6", " ", "T", "o", " ", "1", "2", "6", " ", "N", "E", "W", " ", "Y", "O", "R", "K", " ", "1", "3", " ", "M", "I", "N">>,
     <<"#", "2", "2", " ", "T", "o", " ", "2", "2", " ", "H", "O", "B", "O", "K", "E", "N", " ", "D", "U", "E">>,
     <<"#", "1", "2", "6", " ", "T", "o", " ", "1", "2", "6", " ", "H", "O", "B", "O", "K", "E", "N", "-", "P", "A", "T", "H", " ", "<", " ", "1", " ", "M", "I", "N">>,
     <<" ", "#", "1", "2", "6", " ", " ", "T", "o", " ", "1", "2", "6", " ", "N", "E", "W", " ", "Y", "O", "R", "K", " ", " ", " ", "1", "3", " ", "m", "i", "n", " ">>,
     <<"#", "1", "2", "6", " ", "T", "o", " ", "1", "2", "6", " ", "N", "E", "W", " ", "Y", "O", "R", "K", " ", "4", "5", " ", "M", "I", "N">>,
     <<"#", "1", "2", "6", " ", "T", "o", " ", "1", "2", "6", " ", "N", "E", "W", " ", "Y", "O", "R", "K", " ", "2", "4", "1", " ", "M", "I", "N">>,
     <<"#", "1", "2", "6", " ", "T", "o", " ", "1", "2", "6", " ", "N", "E", "W", " ", "Y", "O", "R", "K">>,
     <<"1", "3", " ", "M", "I", "N">>,
     <<"#", "8", "7", " ", "T", "o", " ", "N", "E", "W", " ", "Y", "O", "R", "K", " ", "4", "2", " ", "S", "T", " ", "5", " ", "M", "I", "N">>,
     <<"#", "2", "2", " ", "t", "o", " ", "2", "2", " ", "H", "O", "B", "O", "K", "E", "N", " ", "d", "u", "e">>,
     <<"N", "o", " ", "a", "r", "r", "i", "v", "a", "l", " ", "t", "i", "m", "e", "s", " ", "a", "v", "a", "i", "l", "a", "b", "l", "e">>,
     <<" ", "\n", " ">>}

Pages == SeqsUpTo(TextNodes, MaxNodes)

-----------------------------------------------------------------------------
(* The window slider, lines 199-205 and 209.                               *)

DEFAULT_MAX_WINDOW_MIN == 120
SLIDER_MIN == 30
SLIDER_MAX == 240
SLIDER_STEP == 15

SliderValues ==
    {w \in SLIDER_MIN..SLIDER_MAX : (w - SLIDER_MIN) % SLIDER_STEP = 0}

\* the slider positions the model draws
Windows ==
    {w \in SliderValues :
        w \in {SLIDER_MIN, SLIDER_MIN + SLIDER_STEP, DEFAULT_MAX_WINDOW_MIN, SLIDER_MAX}}

-----------------------------------------------------------------------------
(* The two normalizers as calls: what each returns or whether it raises.   *)

Raised == [state |-> "raised", rows |-> <<>>]
Returned(rs) == [state |-> "returned", rows |-> rs]
NotCalled == [state |-> "idle", rows |-> <<>>]

\* lines 79-123, on the document _get_json returned
NormalizePath(data, t, window) ==
    LET c == PathCollect(data, t, window)
    IN  IF c.raised THEN Raised ELSE Returned(PathFinish(c.rows))

\* lines 133-172, on the text _get_html returned
NormalizeBus(nodes, window) == Returned(BusFinish(BusCollect(nodes, window)))

\* the variables of the script run, which a single call leaves alone
script == <<SESSION, panels, wire, cycles>>

\* the variables of a single call, which the script run leaves alone
call == <<feed, rows, path_result, html, out, bus_result>>

InitNormalize ==
    /\ MAX_WINDOW_MIN \in Windows
    /\ SESSION = {}
    /\ panels = [c \in 1..3 |-> <<>>]
    /\ wire = [c \in 1..3 |-> <<>>]
    /\ cycles = 0
    /\ rows = <<>>
    /\ out = <<>>
    /\ path_result = NotCalled
    /\ bus_result = NotCalled
    /\ \/ /\ pc = "parse_path_realtime"
          /\ feed \in Feeds
          /\ now \in Nows
          /\ html = <<>>
       \/ /\ pc = "parse_njt_mybus"
          /\ html \in Pages
          /\ feed = JNull
          /\ now = 0

\* parse_path_realtime, lines 77-123, with the feed as the fetched document
ParsePathRealtime ==
    /\ pc = "parse_path_realtime"
    /\ rows' = PathCollect(feed, now, MAX_WINDOW_MIN).rows
    /\ path_result' = NormalizePath(feed, now, MAX_WINDOW_MIN)
    /\ pc' = "done"
    /\ UNCHANGED <<MAX_WINDOW_MIN, feed, now, html, out, bus_result, script>>

\* parse_njt_mybus, lines 125-172, with html as the fetched page
ParseNjtMybus ==
    /\ pc = "parse_njt_mybus"
    /\ out' = BusCollect(html, MAX_WINDOW_MIN)
    /\ bus_result' = NormalizeBus(html, MAX_WINDOW_MIN)
    /\ pc' = "done"
    /\ UNCHANGED <<MAX_WINDOW_MIN, feed, now, html, rows, path_result, script>>

NextNormalize == ParsePathRealtime \/ ParseNjtMybus

SpecNormalize == InitNormalize /\ [][NextNormalize]_vars

-----------------------------------------------------------------------------
(* The Feed Client, lines 44-74.  A request either fails in transport      *)
(* (timeout, connection error: requests raises) or is answered with a      *)
(* status, Set-Cookie headers and a body.                                  *)

TransportFailure == [kind |-> "failed"]
Answer(status, cookies, body) ==
    [kind |-> "http", status |-> status, cookies |-> cookies, body |-> body]

\* r.raise_for_status(), lines 46 and 73: raises for 4xx and 5xx
RaisesForStatus(r) == 400 <= r.status /\ r.status < 600

\* a JSON body that r.json() cannot decode
NotJson == [t |-> "invalid"]

Fetched(value) == [raised |-> FALSE, value |-> value]
FetchFailed == [raised |-> TRUE, value |-> <<>>]

\* _get_json, lines 44-47
GetJson(r) ==
    IF r.kind = "failed" THEN FetchFailed
    ELSE IF RaisesForStatus(r) THEN FetchFailed
    ELSE IF r.body = NotJson THEN FetchFailed
    ELSE Fetched(r.body)

\* _get_html, lines 64-74: the answer to the priming request is not looked at;
\* the target is requested only if the priming request did not raise
GetHtml(home, eta) ==
    IF home.kind = "failed" THEN FetchFailed
    ELSE IF eta.kind = "failed" THEN FetchFailed
    ELSE IF RaisesForStatus(eta) THEN FetchFailed
    ELSE Fetched(eta.body)

\* JarAfterJson with the JSON request made through SESSION
JarAfterJsonThroughSession(jar, r) == IF r.kind = "http" THEN jar \cup r.cookies ELSE jar

\* requests.get of line 45 uses no session: the jar of SESSION is neither sent
\* nor updated
JarAfterJson(jar, r) == jar

\* SESSION.get, lines 66 and 72: a session stores the cookies of every answer
JarAfter(jar, r) == IF r.kind = "http" THEN jar \cup r.cookies ELSE jar

\* the exchanges of _get_html on the wire, with the cookies each request carried
HtmlExchanges(jar, url, home, eta) ==
    <<[url |-> "home", sent |-> jar, referer |-> FALSE, answer |-> home]>>
    \o (IF home.kind = "failed" THEN <<>>
        ELSE <<[url |-> url, sent |-> JarAfter(jar, home), referer |-> TRUE,
                answer |-> eta]>>)

JarAfterHtml(jar, home, eta) ==
    IF home.kind = "failed" THEN jar ELSE JarAfter(JarAfter(jar, home), eta)

-----------------------------------------------------------------------------
(* Presentation, lines 175-192, and the three panels, lines 216-243.       *)

Subheader(title) == [el |-> "subheader", text |-> title]
Info == [el |-> "info", text |-> "No upcoming departures found"]
Error(what) == [el |-> "error", text |-> what]

\* lines 183-192: the line of one row (the clock time is not modelled)
WriteRow(r, kind) ==
    [el |-> "write",
     label |-> IF kind = "path" THEN r.line ELSE <<"#">> \o r.route,
     to |-> r.to,
     minutes |-> r.minutes]

\* RenderList showing an error for an empty list
RenderListEmptyIsError(title, rs, kind) ==
    <<[el |-> "subheader", text |-> title]>>
    \o (IF rs = <<>> THEN <<[el |-> "error", text |-> "nothing found"]>>
        ELSE [i \in DOMAIN rs |-> WriteRow(rs[i], kind)])

\* render_list, lines 175-192
RenderList(title, rs, kind) ==
    <<Subheader(title)>>
    \o (IF rs = <<>> THEN <<Info>> ELSE [i \in DOMAIN rs |-> WriteRow(rs[i], kind)])

\* the except branches, lines 222-225, 231-234, 240-243
RenderError(title, what) == <<Subheader(title), Error(what)>>

\* one try/except of lines 218-243: what the column shows
Panel(title, result, kind, what) ==
    IF result.state = "raised" THEN RenderError(title, what)
    ELSE RenderList(title, result.rows, kind)

\* AfterPanel with an exception that the except clause does not catch: the
\* script run ends there
AfterPanelUncaught(result, following) ==
    IF result.state = "raised" THEN "sleep" ELSE following

\* `except Exception` catches whatever the pipeline raised: the script goes on
\* with the statement after the try/except
AfterPanel(result, following) == following

-----------------------------------------------------------------------------
(* What the network serves to a script run.                                *)

\* a success status and an error status
OK == 200
SERVER_ERROR == 500

Cookies == {"JSESSIONID"}

\* the documents and pages the model serves
FeedTwoRows == SplitFeed(<<MsgIn5, MsgPast>>, 1)
FeedNoMessages == SplitFeed(<<>>, 0)
FeedNullMessage == SplitFeed(<<MsgJunkTime, MsgNull>>, 2)

ServedFeeds == {FeedTwoRows, FeedNoMessages, FeedNullMessage, NotJson}

PageTwoBuses == <<<<"#", "1", "2", "6", " ", "T", "o", " ", "1", "2", "6", " ", "N", "E", "W", " ", "Y", "O", "R", "K", " ", "1", "3", " ", "M", "I", "N">>, <<"#", "2", "2", " ", "T", "o", " ", "2", "2", " ", "H", "O", "B", "O", "K", "E", "N", " ", "D", "U", "E">>>>
PageNoMatch == <<<<"N", "o", " ", "a", "r", "r", "i", "v", "a", "l", " ", "t", "i", "m", "e", "s", " ", "a", "v", "a", "i", "l", "a", "b", "l", "e">>>>
PageBeyondWindow == <<<<"#", "1", "2", "6", " ", "T", "o", " ", "1", "2", "6", " ", "N", "E", "W", " ", "Y", "O", "R", "K", " ", "2", "4", "1", " ", "M", "I", "N">>>>

ServedPages == {PageTwoBuses, PageNoMatch, PageBeyondWindow}

HomePage == <<<<"M", "y", "B", "u", "s", " ", "N", "o", "w">>>>
ErrorPage == <<<<"I", "n", "t", "e", "r", "n", "a", "l", " ", "S", "e", "r", "v", "e", "r", " ", "E", "r", "r", "o", "r">>>>

JsonAnswers ==
    {TransportFailure}
    \cup {Answer(OK, c, b) : c \in SUBSET Cookies, b \in ServedFeeds}
    \cup {Answer(SERVER_ERROR, {}, NotJson)}

HomeAnswers ==
    {TransportFailure}
    \cup {Answer(OK, c, HomePage) : c \in SUBSET Cookies}
    \cup {Answer(SERVER_ERROR, {}, ErrorPage)}

EtaAnswers ==
    {TransportFailure}
    \cup {Answer(OK, {}, b) : b \in ServedPages}
    \cup {Answer(OK, c, PageTwoBuses) : c \in SUBSET Cookies}
    \cup {Answer(SERVER_ERROR, {}, ErrorPage)}

-----------------------------------------------------------------------------
(* One run of the script, lines 198-247.                                   *)

Blank == [c \in 1..3 |-> <<>>]

Init ==
    /\ pc = "sidebar"
    /\ MAX_WINDOW_MIN = DEFAULT_MAX_WINDOW_MIN
    /\ SESSION = {}
    /\ panels = Blank
    /\ wire = Blank
    /\ cycles = 0
    /\ now = 0
    /\ feed = JNull
    /\ rows = <<>>
    /\ path_result = NotCalled
    /\ html = <<>>
    /\ out = <<>>
    /\ bus_result = NotCalled

\* lines 198-209: the slider sets the window of this run
Sidebar ==
    /\ pc = "sidebar"
    /\ MAX_WINDOW_MIN' \in Windows
    /\ pc' = "path"
    /\ UNCHANGED <<SESSION, panels, wire, cycles, now, call>>

\* lines 218-225: the PATH pipeline
PathPanel ==
    /\ pc = "path"
    /\ \E r \in JsonAnswers, t \in Nows :
          LET fetched == GetJson(r)
              result == IF fetched.raised THEN Raised
                        ELSE NormalizePath(fetched.value, t, MAX_WINDOW_MIN)
          IN  /\ panels' = [panels EXCEPT ![1] = Panel("PATH", result, "path", "PATH fetch failed")]
              /\ wire' = [wire EXCEPT ![1] =
                            <<[url |-> "path", sent |-> {}, referer |-> FALSE, answer |-> r]>>]
              /\ SESSION' = JarAfterJson(SESSION, r)
              /\ now' = t
              /\ pc' = AfterPanel(result, "bus11")
    /\ UNCHANGED <<MAX_WINDOW_MIN, cycles, call>>

\* lines 227-243: a bus pipeline, in column c, for the ETA page url
BusPanel(c, title, url, following) ==
    \E home \in HomeAnswers, eta \in EtaAnswers :
        LET fetched == GetHtml(home, eta)
            result == IF fetched.raised THEN Raised
                      ELSE NormalizeBus(fetched.value, MAX_WINDOW_MIN)
        IN  /\ panels' = [panels EXCEPT ![c] = Panel(title, result, "bus", "MyBus fetch failed")]
            /\ wire' = [wire EXCEPT ![c] = HtmlExchanges(SESSION, url, home, eta)]
            /\ SESSION' = JarAfterHtml(SESSION, home, eta)
            /\ pc' = AfterPanel(result, following)
            /\ UNCHANGED <<MAX_WINDOW_MIN, cycles, now, call>>

\* lines 227-234
Bus11Panel == pc = "bus11" /\ BusPanel(2, "Bus 11th St", "eta11", "bus10")

\* lines 236-243
Bus10Panel == pc = "bus10" /\ BusPanel(3, "Bus 10th St", "eta10", "sleep")

\* lines 246-247: sleep, then the script runs again from its first line: the
\* page is drawn anew and line 50 makes a new session
Rerun ==
    /\ pc = "sleep"
    /\ cycles < MaxCycles
    /\ cycles' = cycles + 1
    /\ pc' = "sidebar"
    /\ SESSION' = {}
    /\ panels' = Blank
    /\ wire' = Blank
    /\ now' = 0
    /\ UNCHANGED <<MAX_WINDOW_MIN, call>>

Next == Sidebar \/ PathPanel \/ Bus11Panel \/ Bus10Panel \/ Rerun

Spec == Init /\ [][Next]_vars

-----------------------------------------------------------------------------
(* Properties of the two normalizers, checked under SpecNormalize.         *)

PathReturned == pc = "done" /\ path_result.state = "returned"
BusReturned == pc = "done" /\ bus_result.state = "returned"

\* C1: every row parse_path_realtime or parse_njt_mybus returns has an integer
\* minutes with 0 <= minutes <= MAX_WINDOW_MIN, the bound included.
C1_MinutesWithinWindow ==
    /\ PathReturned =>
          \A i \in DOMAIN path_result.rows :
              /\ path_result.rows[i].minutes \in Int
              /\ 0 <= path_result.rows[i].minutes
              /\ path_result.rows[i].minutes <= MAX_WINDOW_MIN
    /\ BusReturned =>
          \A i \in DOMAIN bus_result.rows :
              /\ bus_result.rows[i].minutes \in Int
              /\ 0 <= bus_result.rows[i].minutes
              /\ bus_result.rows[i].minutes <= MAX_WINDOW_MIN

\* a returned row sits exactly on the bound, next to a message that is beyond it
C1_Witness ==
    /\ PathReturned
    /\ \E i \in DOMAIN path_result.rows : path_result.rows[i].minutes = MAX_WINDOW_MIN
    /\ \E d \in DOMAIN Items(Items(feed.o.results)[2].o.destinations) :
          MsgBeyond \in Range(Items(Items(feed.o.results)[2].o.destinations)[d].o.messages.l)

\* the last position of the collected rows whose key is that of position i;
\* ks[i] is the key of the row at position i
LastWithKey(ks, i) ==
    CHOOSE j \in DOMAIN ks : ks[j] = ks[i] /\ \A k \in DOMAIN ks : ks[k] = ks[i] => k <= j

\* the returned list has one row per key of the collected rows, the row of the
\* last occurrence, and no other row; ks and kr are the keys of the collected
\* and of the returned rows
OnePerKeyLastWins(ks, collected, kr, returned) ==
    /\ \A i, j \in DOMAIN kr : kr[i] = kr[j] => i = j
    /\ \A i \in DOMAIN ks :
          \E j \in DOMAIN kr : returned[j] = collected[LastWithKey(ks, i)]
    /\ \A j \in DOMAIN kr : \E i \in DOMAIN ks : ks[i] = kr[j]

PathKeys(rs) == [i \in DOMAIN rs |-> <<rs[i].line, rs[i].to, rs[i].minutes>>]
BusKeys(rs) == [i \in DOMAIN rs |-> <<rs[i].route, rs[i].to, rs[i].minutes>>]

\* C2: no two returned rows share (line, to, minutes), resp. (route, to,
\* minutes); of the items that collide on a key exactly one row, the last
\* occurrence's, is kept.
C2_UniqueKeysLastWins ==
    /\ PathReturned =>
          OnePerKeyLastWins(PathKeys(rows), rows, PathKeys(path_result.rows), path_result.rows)
    /\ BusReturned =>
          OnePerKeyLastWins(BusKeys(out), out, BusKeys(bus_result.rows), bus_result.rows)

\* two messages collided on a key and the later one is the row returned
C2_Witness ==
    /\ PathReturned
    /\ Len(rows) = 2
    /\ PathKey(rows[1]) = PathKey(rows[2])
    /\ rows[1].raw # rows[2].raw
    /\ path_result.rows = <<rows[2]>>

Ascending(rs) ==
    \A i \in DOMAIN rs : i < Len(rs) => rs[i].minutes <= rs[i + 1].minutes

\* C3: the list either normalizer returns is sorted ascending by minutes.
C3_SortedByMinutes ==
    /\ PathReturned => Ascending(path_result.rows)
    /\ BusReturned => Ascending(bus_result.rows)

\* rows were collected in descending order and are returned ascending
C3_Witness ==
    /\ BusReturned
    /\ Len(out) = 2
    /\ out[1].minutes > out[2].minutes
    /\ bus_result.rows = <<out[2], out[1]>>

\* What the claims say of the catalogue's messages, written down by hand: the
\* instant an arrivalTime denotes (seconds past the hour, UTC), if it is an
\* ISO-8601 instant, and the integer before "min" in an arrivalTimeMessage.
ClaimedInstant(msg) ==
    CASE msg = MsgIn5 -> <<930>>
      [] msg = MsgPast -> <<510>>
      [] msg = MsgIn45 -> <<3330>>
      [] msg = MsgFar -> <<18930>>
      [] OTHER -> <<>>

ClaimedPhraseMinutes(msg) ==
    CASE msg \in {MsgPast, MsgJunkTime, MsgEmptyTime} -> <<7>>
      [] msg = MsgNaive -> <<12>>
      [] msg = MsgNullTime -> <<45>>
      [] msg \in {MsgIn45, MsgTwoPhrases} -> <<3>>
      [] msg = MsgBeyond -> <<241>>
      [] OTHER -> <<>>

\* whole minutes in d seconds, rounded down
WholeMinutes(d) == CHOOSE m \in -400..400 : 60 * m <= d /\ d < 60 * (m + 1)

\* the order of resolution the claim states
ClaimedMinutes(msg, t) ==
    IF ClaimedInstant(msg) # <<>>
    THEN LET m == WholeMinutes(ClaimedInstant(msg)[1] - t)
         IN  <<IF m < 0 THEN 0 ELSE m>>
    ELSE ClaimedPhraseMinutes(msg)

\* the message records under the Hoboken stations of a document, in order
MessagesOfDest(dest) ==
    IF dest.t = "obj" /\ "messages" \in DOMAIN dest.o /\ dest.o.messages.t = "list"
    THEN dest.o.messages.l ELSE <<>>

RECURSIVE Flatten(_)
Flatten(ss) == IF ss = <<>> THEN <<>> ELSE ss[1] \o Flatten(Tail(ss))

MessagesOfStation(st) ==
    IF /\ st.t = "obj"
       /\ "consideredStation" \in DOMAIN st.o
       /\ st.o.consideredStation = JStr(HOB)
       /\ "destinations" \in DOMAIN st.o
       /\ st.o.destinations.t = "list"
    THEN Flatten([d \in DOMAIN st.o.destinations.l |->
                     MessagesOfDest(st.o.destinations.l[d])])
    ELSE <<>>

HobMessages(doc) ==
    IF doc.t = "obj" /\ "results" \in DOMAIN doc.o /\ doc.o.results.t = "list"
    THEN Flatten([s \in DOMAIN doc.o.results.l |-> MessagesOfStation(doc.o.results.l[s])])
    ELSE <<>>

RECURSIVE ClaimedRows(_, _, _)
ClaimedRows(msgs, t, window) ==
    IF msgs = <<>> THEN <<>>
    ELSE LET m == ClaimedMinutes(msgs[1], t)
         IN  (IF m # <<>> /\ m[1] <= window THEN <<<<msgs[1], m[1]>>>> ELSE <<>>)
             \o ClaimedRows(Tail(msgs), t, window)

\* the collected rows are those of the Hoboken messages, in order, each with
\* the minutes the claimed order of resolution gives, within the window
RowsAsClaimed ==
    [i \in DOMAIN rows |-> <<rows[i].raw, rows[i].minutes>>]
        = ClaimedRows(HobMessages(feed), now, MAX_WINDOW_MIN)

\* C8: minutes is max(0, whole minutes of arrivalTime - now) when arrivalTime
\* is an ISO-8601 instant (the phrase is then ignored), else the integer before
\* "min" in arrivalTimeMessage, else the message yields no row; messages of other
\* stations yield no row.
C8_MinutesResolutionOrder ==
    PathReturned =>
        /\ RowsAsClaimed
        /\ \A i \in DOMAIN rows : rows[i].raw # MsgElsewhere

\* a past arrivalTime with a phrase gave 0, an unparseable one gave the phrase's 7
C8_Witness ==
    /\ PathReturned
    /\ \E i, j \in DOMAIN rows :
          /\ rows[i].raw = MsgPast /\ rows[i].minutes = 0
          /\ rows[j].raw = MsgJunkTime /\ rows[j].minutes = 7

\* the documents whose envelope is the documented one: whatever is odd in them
\* is a field of a record under the Hoboken station
OddOnlyUnderHob == pc = "done" /\ feed \in SplitFeeds \cup OddHobFeeds

\* C5: a malformed field of a record under the Hoboken station is not fatal:
\* the call returns, the offending message yields no row and every well-formed
\* message yields its row.
C5_BadMessageSkipped ==
    OddOnlyUnderHob => path_result.state = "returned" /\ RowsAsClaimed

\* the value of a decimal token
DecimalValue(s) == CHOOSE n \in 0..999 : IntToStr(n) = s

\* the minutes the claim gives an ETA token
ClaimedEtaMinutes(eta) ==
    IF UpperStr(eta) = <<"D", "U", "E">> \/ eta[1] = "<" THEN 0 ELSE DecimalValue(eta)

RECURSIVE ClaimedBusRows(_, _)
ClaimedBusRows(ms, window) ==
    IF ms = <<>> THEN <<>>
    ELSE (IF ClaimedEtaMinutes(ms[1].eta) <= window
          THEN <<[route |-> ms[1].route, to |-> Strip(ms[1].to),
                  minutes |-> ClaimedEtaMinutes(ms[1].eta)]>>
          ELSE <<>>)
         \o ClaimedBusRows(Tail(ms), window)

BusRow(route, to, minutes) == [route |-> route, to |-> to, minutes |-> minutes]

\* C9: a matched block gives the route id, the destination phrase trimmed, and
\* minutes 0 for DUE and for a token that begins with "<", else the integer of
\* the token; with the three examples of the specification.
C9_BusRowFromMatch ==
    BusReturned =>
        /\ out = ClaimedBusRows(FindIter(GetText(html), 1), MAX_WINDOW_MIN)
        /\ html = <<<<"#", "1", "2", "6", " ", "T", "o", " ", "1", "2", "6", " ", "N", "E", "W", " ", "Y", "O", "R", "K", " ", "1", "3", " ", "M", "I", "N">>>>
              => bus_result.rows = <<BusRow(<<"1", "2", "6">>, <<"1", "2", "6", " ", "N", "E", "W", " ", "Y", "O", "R", "K">>, 13)>>
        /\ html \in {<<<<"#", "2", "2", " ", "T", "o", " ", "2", "2", " ", "H", "O", "B", "O", "K", "E", "N", " ", "D", "U", "E">>>>, <<<<"#", "2", "2", " ", "t", "o", " ", "2", "2", " ", "H", "O", "B", "O", "K", "E", "N", " ", "d", "u", "e">>>>}
              => bus_result.rows = <<BusRow(<<"2", "2">>, <<"2", "2", " ", "H", "O", "B", "O", "K", "E", "N">>, 0)>>
        /\ html = <<<<"#", "1", "2", "6", " ", "T", "o", " ", "1", "2", "6", " ", "H", "O", "B", "O", "K", "E", "N", "-", "P", "A", "T", "H", " ", "<", " ", "1", " ", "M", "I", "N">>>>
              => bus_result.rows = <<BusRow(<<"1", "2", "6">>, <<"1", "2", "6", " ", "H", "O", "B", "O", "K", "E", "N", "-", "P", "A", "T", "H">>, 0)>>
        /\ html = <<<<"#", "1", "2", "6", " ", "T", "o", " ", "1", "2", "6", " ", "N", "E", "W", " ", "Y", "O", "R", "K">>, <<"1", "3", " ", "M", "I", "N">>>>
              => bus_result.rows = <<BusRow(<<"1", "2", "6">>, <<"1", "2", "6", " ", "N", "E", "W", " ", "Y", "O", "R", "K">>, 13)>>

\* a page with a DUE block and a "< 1 MIN" block gave two rows of 0 minutes
C9_Witness ==
    /\ BusReturned
    /\ html = <<<<"#", "2", "2", " ", "T", "o", " ", "2", "2", " ", "H", "O", "B", "O", "K", "E", "N", " ", "D", "U", "E">>, <<"#", "1", "2", "6", " ", "T", "o", " ", "1", "2", "6", " ", "H", "O", "B", "O", "K", "E", "N", "-", "P", "A", "T", "H", " ", "<", " ", "1", " ", "M", "I", "N">>>>
    /\ bus_result.rows = <<BusRow(<<"2", "2">>, <<"2", "2", " ", "H", "O", "B", "O", "K", "E", "N">>, 0),
                           BusRow(<<"1", "2", "6">>, <<"1", "2", "6", " ", "H", "O", "B", "O", "K", "E", "N", "-", "P", "A", "T", "H">>, 0)>>

-----------------------------------------------------------------------------
(* Properties of a script run, checked under Spec.                         *)

ShowsRows(p) ==
    /\ Len(p) >= 2
    /\ p[1].el = "subheader"
    /\ \A i \in 2..Len(p) : p[i].el = "write"

ShowsNotice(p) == Len(p) = 2 /\ p[1].el = "subheader" /\ p[2].el = "info"

ShowsError(p) == Len(p) = 2 /\ p[1].el = "subheader" /\ p[2].el = "error"

ExactlyOneOutcome(p) == ShowsRows(p) \/ ShowsNotice(p) \/ ShowsError(p)

\* an answer with a status that is not a success
NonSuccess(a) == a.kind = "http" /\ a.status # OK

\* what happened to the source of column c, read off the wire: the PATH source
\* failed when its request failed, was answered with an error status or with a
\* body that is not JSON, or served the document with a null message (on which
\* the normalizer raises); a bus source failed when a request failed in
\* transport or the ETA page was answered with an error status
SourceFailed(c) ==
    IF c = 1
    THEN \/ wire[1][1].answer.kind = "failed"
         \/ NonSuccess(wire[1][1].answer)
         \/ wire[1][1].answer.body \in {NotJson, FeedNullMessage}
    ELSE \/ wire[c][Len(wire[c])].answer.kind = "failed"
         \/ Len(wire[c]) = 2 /\ NonSuccess(wire[c][2].answer)

\* C4: whatever sources succeed or fail in a run, each of the three panels
\* renders exactly one outcome, and a panel shows its error message exactly
\* when its own source failed.
C4_FailureIsolatedPerPanel ==
    pc = "sleep" =>
        \A c \in 1..3 :
            /\ ExactlyOneOutcome(panels[c])
            /\ ShowsError(panels[c]) <=> SourceFailed(c)

\* the PATH source failed and both bus panels rendered, one rows, one the notice
C4_Witness ==
    /\ pc = "sleep"
    /\ SourceFailed(1) /\ ShowsError(panels[1])
    /\ ShowsRows(panels[2])
    /\ ShowsNotice(panels[3])

\* C6: a request answered with a non-success status makes the fetch fail, so
\* the panel of that source shows its error: the JSON GET, the priming GET and
\* the GET of the ETA page.
C6_NonSuccessStatusFails ==
    \A c \in 1..3 :
        \A i \in DOMAIN wire[c] :
            NonSuccess(wire[c][i].answer) => ShowsError(panels[c])

\* C7: a bus panel shows the error message exactly when the fetch raised; a
\* page that was fetched and holds no match gives an empty list and the
\* neutral notice.
C7_NoDataIsNotAnError ==
    \A c \in 2..3 :
        panels[c] # <<>> =>
            /\ ShowsError(panels[c]) <=> SourceFailed(c)
            /\ (~SourceFailed(c) /\ wire[c][2].answer.body = PageNoMatch) =>
                  /\ NormalizeBus(PageNoMatch, MAX_WINDOW_MIN) = Returned(<<>>)
                  /\ ShowsNotice(panels[c])

\* in one run, one bus page had no match and shows the notice, the other bus
\* source failed and shows the error
C7_Witness ==
    /\ pc = "sleep"
    /\ ~SourceFailed(2) /\ wire[2][2].answer.body = PageNoMatch /\ ShowsNotice(panels[2])
    /\ SourceFailed(3) /\ ShowsError(panels[3])

Pipelines == {"path", "bus11", "bus10"}

ColumnOf(p) == CASE p = "path" -> 1 [] p = "bus11" -> 2 [] p = "bus10" -> 3

OthersUntouched(c) ==
    \A d \in 1..3 : d # c => panels'[d] = panels[d] /\ wire'[d] = wire[d]

\* a step of a pipeline that leaves unchanged all state another pipeline reads
\* or writes: the window, the session, the other panels
IsolatedStep ==
    pc \in Pipelines =>
        /\ MAX_WINDOW_MIN' = MAX_WINDOW_MIN
        /\ SESSION' = SESSION
        /\ OthersUntouched(ColumnOf(pc))

\* C10, as stated: no mutable state is shared between pipelines; every step of
\* a pipeline is isolated.
C10_NoSharedMutableState == [][IsolatedStep]_vars

\* a step of a pipeline that changes neither the window nor another panel; the
\* PATH pipeline leaves the session alone; a bus pipeline sends the cookies the
\* session holds, those stored by an earlier bus pipeline included, and may add
\* to them
SessionSharingStep ==
    pc \in Pipelines =>
        /\ MAX_WINDOW_MIN' = MAX_WINDOW_MIN
        /\ OthersUntouched(ColumnOf(pc))
        /\ (pc = "path" => SESSION' = SESSION /\ wire'[1][1].sent = {})
        /\ (pc # "path" =>
               /\ SESSION \subseteq SESSION'
               /\ wire'[ColumnOf(pc)][1].sent = SESSION)

\* C10, amended: the window and the session's cookie jar are the state shared
\* between pipelines; only the two bus pipelines read and write the jar.
C10_SessionSharedByBusPipelines == [][SessionSharingStep]_vars

\* the second bus pipeline sent a cookie that the first one had stored
C10_Witness ==
    /\ pc = "sleep"
    /\ wire[2][1].sent = {}
    /\ wire[3][1].sent # {}

====
